---- MODULE Spec2Model ----
(***************************************************************************)
(* State-machine model of the native TCP line driver                       *)
(* (src/drivers/tcp-line/native/src/lib.rs): the background ingestion task *)
(* (run_loop / handle_connected / process_line / accept_sample /           *)
(* handle_failure), the line parser, the backoff generator and the         *)
(* consumer API (connect, read_telemetry, disconnect).                     *)
(*                                                                         *)
(* Granularity: one step per critical section (one mutex acquisition or    *)
(* one atomic load/store).  A mutex that the code holds across several     *)
(* critical sections (parser in process_line, handle in ensure_loop) is    *)
(* modelled by a guard on the positions of its holder.                     *)
(*                                                                         *)
(* Runtime semantics used (tokio): JoinHandle::abort() marks the task; a   *)
(* marked task that is parked at an .await never runs again, a marked task *)
(* that is running goes on until its next .await that has to wait.         *)
(* Notify::notify_waiters() wakes exactly the Notified futures that exist  *)
(* at the time of the call and stores no permit.                           *)
(***************************************************************************)
EXTENDS Integers, Sequences, FiniteSets, TLC

VARIABLES
  cfg,            \* TcpLineDriverConfig (immutable after construction)
  env,            \* the remote endpoint and the amount of traffic explored
  state,          \* DriverInner.state
  stop_flag,      \* DriverInner.stop_flag
  handle,         \* DriverInner.handle: None or Some(task id)
  backoff,        \* DriverInner.backoff
  metrics,        \* DriverInner.metrics
  latest_sample,  \* DriverInner.latest_sample
  start_ts,       \* DriverInner.start_ts
  parser,         \* DriverInner.parser (csv_header_parsed, csv_columns)
  notify_state,   \* Notified futures alive on notify_state (caller ids)
  notify_sample,  \* Notified futures alive on notify_sample (reader ids)
  task,           \* the spawned run_loop tasks: position and locals
  conn,           \* callers of connect(): position and result
  rd,             \* callers of read_telemetry(): position, locals, result
  disc,           \* callers of disconnect(): position
  hist,           \* history variables (observe only, never read by the code)
  lk              \* the mutexes: owner of each, and each thread's position (SpecLocks)

vars == <<lk, cfg, env, state, stop_flag, handle, backoff, metrics, latest_sample,
          start_ts, parser, notify_state, notify_sample, task, conn, rd, disc, hist>>

(***************************************************************************)
(* Bounds of the exploration.                                              *)
(***************************************************************************)
MaxTasks == 2        \* run_loop tasks spawned in one behaviour
MaxTs == 2           \* timestamps are 0..MaxTs (milliseconds)
StopLines == 1       \* Spec: lines received
StopAttempts == 1    \* Spec: transport connection attempts answered
StopCalls == 2       \* Spec: connect() calls
ConnLines == 1       \* SpecConnect: lines received
ConnAttempts == 2    \* SpecConnect: transport connection attempts answered
ReadLines == 1       \* SpecRead: lines received
ReadAttempts == 1    \* SpecRead: transport connection attempts answered
ReadCalls == 1       \* SpecRead: read_telemetry() calls
MaxLines == 2        \* SpecIngest: lines received
MaxCycles == 2       \* SpecIngest: transport connection attempts answered
MaxReads == 1        \* SpecIngest: read_telemetry() calls
AcceptLines == 2     \* SpecAccept: lines received
AcceptCycles == 2    \* SpecAccept: transport connection attempts answered
MetricLines == 2     \* SpecMetrics: lines received per connection
MetricCycles == 2    \* SpecMetrics: transport connection attempts answered
MetricReads == 1     \* SpecMetrics: read_telemetry() calls
CsvLines == 3        \* SpecCsv: lines received
CsvCycles == 2       \* SpecCsv: transport connection attempts answered
MaxDelays == 6       \* SpecBackoff: transport connection attempts answered

Tasks == 1..MaxTasks
ConnIds == {1, 2}    \* callers of connect()
ReadIds == {1}       \* callers of read_telemetry()
DiscIds == {1}       \* callers of disconnect()
Times == 0..MaxTs

(***************************************************************************)
(* Option<T>                                                               *)
(***************************************************************************)
None == <<>>
Some(x) == <<x>>
IsSome(o) == o # <<>>
Unwrap(o) == o[1]

Min2(a, b) == IF a <= b THEN a ELSE b
Max2(a, b) == IF a >= b THEN a ELSE b

(***************************************************************************)
(* Backoff (lib.rs 63-84).  saturating_mul only differs from the product   *)
(* above 2^64 - 1, far outside the delays explored here; clamp is Rust's   *)
(* Ord::clamp, defined for min <= max.                                     *)
(***************************************************************************)
SaturatingMul(x, k) == x * k

Clamp(x, lo, hi) == IF x < lo THEN lo ELSE IF x > hi THEN hi ELSE x

BackoffNew(mn, mx) == [current |-> mn, min |-> mn, max |-> mx]

BackoffNextNoDouble(b) ==
  [value |-> b.current, backoff |-> [b EXCEPT !.current = Clamp(b.current, b.min, b.max)]]

BackoffNext(b) ==
  [value   |-> b.current,
   backoff |-> [b EXCEPT !.current = Clamp(SaturatingMul(b.current, 2), b.min, b.max)]]

BackoffReset(b) == [b EXCEPT !.current = b.min]

(***************************************************************************)
(* Wire text.  A piece of text is described by what the parsers make of    *)
(* it: c = "ts" is an RFC 3339 timestamp denoting instant n, c = "num" is  *)
(* a decimal number n, c = "empty" is empty or blank, c = "word" is any    *)
(* other text; s is the text as a column or key name.  jt is the JSON      *)
(* type of a value ("str" or "num"); CSV parts are always strings.         *)
(***************************************************************************)
TsText(n)  == [jt |-> "str", c |-> "ts",    n |-> n, s |-> "#ts"]
NumText(n) == [jt |-> "str", c |-> "num",   n |-> n, s |-> "#num"]
JsonNum(n) == [jt |-> "num", c |-> "num",   n |-> n, s |-> "#num"]
EmptyText  == [jt |-> "str", c |-> "empty", n |-> 0, s |-> ""]
Word(w)    == [jt |-> "str", c |-> "word",  n |-> 0, s |-> w]

Entry(k, v) == [key |-> k, v |-> v]

\* A line: blank after trim, a JSON object with its fields in order, or any
\* other text; parts is the line split on the CSV delimiter, each part trimmed.
BlankLine       == [kind |-> "blank",  fields |-> <<>>, parts |-> <<>>]
ObjectLine(f)   == [kind |-> "object", fields |-> f,    parts |-> <<Word("{..}")>>]
TextLine(parts) == [kind |-> "text",   fields |-> <<>>, parts |-> parts]

RESERVED_KEYS == {"ts", "btC", "etC", "powerPct", "fanPct", "drumRpm"}

DefaultColumns == <<"ts", "btC", "etC", "powerPct", "fanPct", "drumRpm">>

SetMax(S) == CHOOSE x \in S : \A y \in S : y <= x

\* parse_number (lib.rs 278-290)
parse_number(v) ==
  IF v.jt = "num" THEN Some(v.n)
  ELSE IF v.c = "empty" THEN None
  ELSE IF v.c = "num" THEN Some(v.n)
  ELSE None

\* parse_timestamp (lib.rs 292-296): Ok(instant) or Err(InvalidTimestamp)
parse_timestamp(v) ==
  IF v.c = "ts" THEN [err |-> "", ts |-> v.n] ELSE [err |-> "invalid timestamp", ts |-> 0]

AddOffset(o, off) == IF IsSome(o) THEN Some(Unwrap(o) + off) ELSE None

\* The value a channel key ends with: every occurrence assigns, the last one wins.
Channel(record, key) ==
  LET idx == {i \in 1..Len(record) : record[i].key = key}
  IN IF idx = {} THEN None ELSE parse_number(record[SetMax(idx)].v)

IsExtra(e) ==
  /\ e.key \notin RESERVED_KEYS
  /\ \/ IsSome(parse_number(e.v))
     \/ e.v.jt = "str" /\ e.v.c # "empty"

ExtraOf(e) ==
  IF IsSome(parse_number(e.v))
  THEN [key |-> e.key, number_value |-> parse_number(e.v), text_value |-> None]
  ELSE [key |-> e.key, number_value |-> None, text_value |-> Some(e.v.s)]

RECURSIVE Extras(_)
Extras(record) ==
  IF record = <<>> THEN <<>>
  ELSE (IF IsExtra(Head(record)) THEN <<ExtraOf(Head(record))>> ELSE <<>>)
       \o Extras(Tail(record))

Ok(sampleOpt) == [err |-> "", sample |-> sampleOpt]
Err(e) == [err |-> e, sample |-> None]

\* to_sample (lib.rs 216-275); now is Utc::now() at the call
to_sample(record, now) ==
  LET tsIdx == {i \in 1..Len(record) : record[i].key = "ts" /\ record[i].v.jt = "str"}
      bad   == {i \in tsIdx : parse_timestamp(record[i].v).err # ""}
      ts    == IF tsIdx = {} THEN now ELSE parse_timestamp(record[SetMax(tsIdx)].v).ts
      ex    == Extras(record)
      sample == [ts        |-> ts,
                 bt_c      |-> AddOffset(Channel(record, "btC"), cfg.offsets.bt_c),
                 et_c      |-> AddOffset(Channel(record, "etC"), cfg.offsets.et_c),
                 power_pct |-> Channel(record, "powerPct"),
                 fan_pct   |-> Channel(record, "fanPct"),
                 drum_rpm  |-> Channel(record, "drumRpm"),
                 extras    |-> IF ex = <<>> THEN None ELSE Some(ex)]
      has_channels == \/ IsSome(sample.bt_c) \/ IsSome(sample.et_c)
                      \/ IsSome(sample.power_pct) \/ IsSome(sample.fan_pct)
                      \/ IsSome(sample.drum_rpm)
  IN IF bad # {} THEN Err("invalid timestamp")
     ELSE IF ~has_channels /\ sample.extras = None THEN Ok(None)
     ELSE Ok(Some(sample))

(***************************************************************************)
(* TcpLineParser (lib.rs 147-214).  Every operation returns the parser it  *)
(* leaves behind together with its result.                                 *)
(***************************************************************************)
ParserNew == [csv_header_parsed |-> FALSE, csv_columns |-> cfg.csv.columns]

ParserResetKeepHeader(p) == p

ParserReset(p) == [csv_header_parsed |-> FALSE, csv_columns |-> cfg.csv.columns]

parse_json_line(p, line, now) ==
  [parser |-> p,
   res    |-> IF line.kind = "object" THEN to_sample(line.fields, now)
              ELSE Err("invalid json")]

parse_csv_line(p, line, now) ==
  LET parts == line.parts IN
  IF cfg.csv.has_header /\ ~p.csv_header_parsed
  THEN [parser |-> [csv_header_parsed |-> TRUE,
                    csv_columns |-> [i \in 1..Len(parts) |-> parts[i].s]],
        res    |-> Ok(None)]
  ELSE LET columns == IF p.csv_columns # <<>> THEN p.csv_columns ELSE DefaultColumns
           map == [i \in 1..Min2(Len(parts), Len(columns)) |->
                     Entry(columns[i], parts[i])]
       IN [parser |-> p, res |-> to_sample(map, now)]

parse_line(p, line, now) ==
  IF line.kind = "blank" THEN [parser |-> p, res |-> Ok(None)]
  ELSE IF cfg.format = "jsonl" THEN parse_json_line(p, line, now)
  ELSE parse_csv_line(p, line, now)

(***************************************************************************)
(* Shared helpers of the driver.                                           *)
(***************************************************************************)
NewTask == [pc |-> "start", aborted |-> FALSE, line |-> BlankLine, sample |-> None,
            msg |-> "", flag |-> FALSE, delay |-> 0]

NoTask == [NewTask EXCEPT !.pc = "unborn"]

\* JoinHandle::is_finished: the task returned or was cancelled
is_finished(t) == task[t].pc \in {"finished", "cancelled"}

Live(t) == task[t].pc \notin {"unborn", "finished", "cancelled"}

\* Positions at which a task is inside process_line and holds the parser mutex
ParserHeld == {"as_latest", "as_start", "as_metrics", "as_notify"}

ParserFree(t) == \A u \in Tasks \ {t} : task[u].pc \notin ParserHeld

\* Positions at which a connect() caller is inside ensure_loop and holds the
\* handle mutex
HandleHeld == {"el_backoff", "el_spawn"}

HandleFree == \A c \in ConnIds : conn[c].pc \notin HandleHeld

At(t, p) == task[t].pc = p

Goto(t, p) == task' = [task EXCEPT ![t].pc = p]

\* to_rfc3339_opts(SecondsFormat::Millis, true) of an instant in milliseconds
to_rfc3339_millis(ts) == TsText(ts)

\* set_state (lib.rs 518-522): store under the state mutex, then wake every
\* Notified future alive on notify_state
SetStateNoNotify(s) == state' = s /\ notify_state' = notify_state

set_state(s) == state' = s /\ notify_state' = {}

\* notify_sample.notify_waiters()
NotifySample == notify_sample' = {}

(***************************************************************************)
(* run_loop (lib.rs 357-398)                                               *)
(***************************************************************************)
\* first poll of a spawned task
TaskStart(t) ==
  /\ At(t, "start") /\ ~task[t].aborted
  /\ Goto(t, "rl_top")
  /\ UNCHANGED <<lk, cfg, env, state, stop_flag, handle, backoff, metrics, latest_sample,
                 start_ts, parser, notify_state, notify_sample, conn, rd, disc, hist>>

\* an aborted task parked at (or reaching) an .await that has to wait is dropped
TaskCancel(t) ==
  /\ task[t].pc \in {"start", "rl_connect", "hc_read", "rl_sleep"}
  /\ task[t].aborted
  /\ Goto(t, "cancelled")
  /\ UNCHANGED <<lk, cfg, env, state, stop_flag, handle, backoff, metrics, latest_sample,
                 start_ts, parser, notify_state, notify_sample, conn, rd, disc, hist>>

\* 359-361
RlTopIgnoreStop(t) ==
  /\ At(t, "rl_top")
  /\ Goto(t, "rl_set_connecting")
  /\ UNCHANGED <<lk, cfg, env, state, stop_flag, handle, backoff, metrics, latest_sample,
                 start_ts, parser, notify_state, notify_sample, conn, rd, disc, hist>>

RlTop(t) ==
  /\ At(t, "rl_top")
  /\ Goto(t, IF stop_flag THEN "rl_final_load" ELSE "rl_set_connecting")
  /\ UNCHANGED <<lk, cfg, env, state, stop_flag, handle, backoff, metrics, latest_sample,
                 start_ts, parser, notify_state, notify_sample, conn, rd, disc, hist>>

\* 363
RlSetConnecting(t) ==
  /\ At(t, "rl_set_connecting")
  /\ set_state("CONNECTING")
  /\ Goto(t, "rl_reset_parser")
  /\ UNCHANGED <<lk, cfg, env, stop_flag, handle, backoff, metrics, latest_sample,
                 start_ts, parser, notify_sample, conn, rd, disc, hist>>

\* 364: reset_connection_state (496-500), three critical sections
RlResetParser(t) ==
  /\ At(t, "rl_reset_parser") /\ ParserFree(t)
  /\ parser' = ParserReset(parser)
  /\ Goto(t, "rl_reset_latest")
  /\ UNCHANGED <<lk, cfg, env, state, stop_flag, handle, backoff, metrics, latest_sample,
                 start_ts, notify_state, notify_sample, conn, rd, disc, hist>>

RlResetLatest(t) ==
  /\ At(t, "rl_reset_latest")
  /\ latest_sample' = None
  /\ Goto(t, "rl_reset_start")
  /\ UNCHANGED <<lk, cfg, env, state, stop_flag, handle, backoff, metrics,
                 start_ts, parser, notify_state, notify_sample, conn, rd, disc, hist>>

RlResetStart(t) ==
  /\ At(t, "rl_reset_start")
  /\ start_ts' = None
  /\ Goto(t, "rl_connect")
  /\ UNCHANGED <<lk, cfg, env, state, stop_flag, handle, backoff, metrics, latest_sample,
                 parser, notify_state, notify_sample, conn, rd, disc, hist>>

\* 366-369: TcpStream::connect(..).await resolves to Ok(stream)
RlConnectOk(t) ==
  /\ At(t, "rl_connect") /\ ~task[t].aborted
  /\ hist.attempts < env.maxAttempts
  /\ Goto(t, "hc_backoff")
  /\ hist' = [hist EXCEPT !.attempts = @ + 1, !.k = 0, !.nonblank = 0,
                          !.accepted = 0, !.header = None, !.last = None]
  /\ UNCHANGED <<lk, cfg, env, state, stop_flag, handle, backoff, metrics, latest_sample,
                 start_ts, parser, notify_state, notify_sample, conn, rd, disc>>

\* 366, 370-372: TcpStream::connect(..).await resolves to Err(err)
RlConnectErr(t) ==
  /\ At(t, "rl_connect") /\ ~task[t].aborted
  /\ hist.attempts < env.maxAttempts
  /\ task' = [task EXCEPT ![t].pc = "hf_err", ![t].msg = "connection failure"]
  /\ hist' = [hist EXCEPT !.attempts = @ + 1]
  /\ UNCHANGED <<lk, cfg, env, state, stop_flag, handle, backoff, metrics, latest_sample,
                 start_ts, parser, notify_state, notify_sample, conn, rd, disc>>

\* 375-381
RlAfterAlwaysRetry(t) ==
  /\ At(t, "rl_after")
  /\ Goto(t, IF stop_flag THEN "rl_final_load" ELSE "rl_reconnects")
  /\ UNCHANGED <<lk, cfg, env, state, stop_flag, handle, backoff, metrics, latest_sample,
                 start_ts, parser, notify_state, notify_sample, conn, rd, disc, hist>>

RlAfter(t) ==
  /\ At(t, "rl_after")
  /\ Goto(t, IF stop_flag THEN "rl_final_load"
             ELSE IF ~cfg.reconnect.enabled THEN "rl_final_load"
             ELSE "rl_reconnects")
  /\ UNCHANGED <<lk, cfg, env, state, stop_flag, handle, backoff, metrics, latest_sample,
                 start_ts, parser, notify_state, notify_sample, conn, rd, disc, hist>>

\* 383-386
RlReconnectsSkip(t) ==
  /\ At(t, "rl_reconnects")
  /\ metrics' = metrics
  /\ Goto(t, "rl_backoff_next")
  /\ UNCHANGED <<lk, cfg, env, state, stop_flag, handle, backoff, latest_sample,
                 start_ts, parser, notify_state, notify_sample, conn, rd, disc, hist>>

RlReconnects(t) ==
  /\ At(t, "rl_reconnects")
  /\ metrics' = [metrics EXCEPT !.reconnects = @ + 1]
  /\ Goto(t, "rl_backoff_next")
  /\ UNCHANGED <<lk, cfg, env, state, stop_flag, handle, backoff, latest_sample,
                 start_ts, parser, notify_state, notify_sample, conn, rd, disc, hist>>

\* 388
RlBackoffNext(t) ==
  /\ At(t, "rl_backoff_next")
  /\ backoff' = BackoffNext(backoff).backoff
  /\ task' = [task EXCEPT ![t].pc = "rl_sleep", ![t].delay = BackoffNext(backoff).value]
  /\ hist' = [hist EXCEPT !.k = @ + 1]
  /\ UNCHANGED <<lk, cfg, env, state, stop_flag, handle, metrics, latest_sample,
                 start_ts, parser, notify_state, notify_sample, conn, rd, disc>>

\* 389: sleep(delay).await elapses
RlSleep(t) ==
  /\ At(t, "rl_sleep") /\ ~task[t].aborted
  /\ task' = [task EXCEPT ![t].pc = "rl_top", ![t].delay = 0]
  /\ UNCHANGED <<lk, cfg, env, state, stop_flag, handle, backoff, metrics, latest_sample,
                 start_ts, parser, notify_state, notify_sample, conn, rd, disc, hist>>

\* 392-396
RlFinalLoad(t) ==
  /\ At(t, "rl_final_load")
  /\ task' = [task EXCEPT ![t].pc = "rl_final_set", ![t].flag = stop_flag]
  /\ UNCHANGED <<lk, cfg, env, state, stop_flag, handle, backoff, metrics, latest_sample,
                 start_ts, parser, notify_state, notify_sample, conn, rd, disc, hist>>

\* 397
RlFinalSet(t) ==
  /\ At(t, "rl_final_set")
  /\ set_state(IF task[t].flag THEN "STOPPED" ELSE "DISCONNECTED")
  /\ task' = [task EXCEPT ![t].pc = "finished", ![t].flag = FALSE]
  /\ UNCHANGED <<lk, cfg, env, stop_flag, handle, backoff, metrics, latest_sample,
                 start_ts, parser, notify_sample, conn, rd, disc, hist>>

(***************************************************************************)
(* handle_connected (lib.rs 400-442)                                       *)
(***************************************************************************)
\* 401-404
HcBackoffNoReset(t) ==
  /\ At(t, "hc_backoff")
  /\ backoff' = backoff
  /\ Goto(t, "hc_clear_err")
  /\ UNCHANGED <<lk, cfg, env, state, stop_flag, handle, metrics, latest_sample,
                 start_ts, parser, notify_state, notify_sample, conn, rd, disc, hist>>

HcBackoff(t) ==
  /\ At(t, "hc_backoff")
  /\ backoff' = BackoffReset(backoff)
  /\ Goto(t, "hc_clear_err")
  /\ UNCHANGED <<lk, cfg, env, state, stop_flag, handle, metrics, latest_sample,
                 start_ts, parser, notify_state, notify_sample, conn, rd, disc, hist>>

\* 405-408
HcClearErr(t) ==
  /\ At(t, "hc_clear_err")
  /\ metrics' = [metrics EXCEPT !.lastError = None]
  /\ Goto(t, "hc_set_connected")
  /\ UNCHANGED <<lk, cfg, env, state, stop_flag, handle, backoff, latest_sample,
                 start_ts, parser, notify_state, notify_sample, conn, rd, disc, hist>>

\* 409
HcSetConnected(t) ==
  /\ At(t, "hc_set_connected")
  /\ set_state("CONNECTED")
  /\ Goto(t, "hc_top")
  /\ UNCHANGED <<lk, cfg, env, stop_flag, handle, backoff, metrics, latest_sample,
                 start_ts, parser, notify_sample, conn, rd, disc, hist>>

\* 414-416: a set stop flag leaves the read loop and returns to run_loop
HcTop(t) ==
  /\ At(t, "hc_top")
  /\ Goto(t, IF stop_flag THEN "rl_after" ELSE "hc_read")
  /\ UNCHANGED <<lk, cfg, env, state, stop_flag, handle, backoff, metrics, latest_sample,
                 start_ts, parser, notify_state, notify_sample, conn, rd, disc, hist>>

\* 419, 425-429: read_line resolves to Ok(n > 0); the line may already be
\* buffered, so the await need not wait and an aborted task may still get it
HcReadLine(t) ==
  /\ At(t, "hc_read")
  /\ metrics.linesReceived < env.maxLines
  /\ \E line \in env.wire :
       task' = [task EXCEPT ![t].pc = "hc_process", ![t].line = line]
  /\ metrics' = [metrics EXCEPT !.linesReceived = @ + 1]
  /\ UNCHANGED <<lk, cfg, env, state, stop_flag, handle, backoff, latest_sample,
                 start_ts, parser, notify_state, notify_sample, conn, rd, disc, hist>>

\* 419, 421-424: read_line resolves to Ok(0), the remote closed
HcReadEof(t) ==
  /\ At(t, "hc_read")
  /\ task' = [task EXCEPT ![t].pc = "hf_err", ![t].msg = "socket closed"]
  /\ UNCHANGED <<lk, cfg, env, state, stop_flag, handle, backoff, metrics, latest_sample,
                 start_ts, parser, notify_state, notify_sample, conn, rd, disc, hist>>

\* 419, 436-439: read_line resolves to Err(err)
HcReadErr(t) ==
  /\ At(t, "hc_read")
  /\ task' = [task EXCEPT ![t].pc = "hf_err", ![t].msg = "socket error"]
  /\ UNCHANGED <<lk, cfg, env, state, stop_flag, handle, backoff, metrics, latest_sample,
                 start_ts, parser, notify_state, notify_sample, conn, rd, disc, hist>>

\* 430-434: the Err arm of process_line
HcParseErrTwice(t) ==
  /\ At(t, "hc_parse_err")
  /\ metrics' = [metrics EXCEPT !.parseErrors = @ + 2, !.lastError = Some(task[t].msg)]
  /\ task' = [task EXCEPT ![t].pc = "hc_top", ![t].msg = ""]
  /\ UNCHANGED <<lk, cfg, env, state, stop_flag, handle, backoff, latest_sample,
                 start_ts, parser, notify_state, notify_sample, conn, rd, disc, hist>>

HcParseErr(t) ==
  /\ At(t, "hc_parse_err")
  /\ metrics' = [metrics EXCEPT !.parseErrors = @ + 1, !.lastError = Some(task[t].msg)]
  /\ task' = [task EXCEPT ![t].pc = "hc_top", ![t].msg = ""]
  /\ UNCHANGED <<lk, cfg, env, state, stop_flag, handle, backoff, latest_sample,
                 start_ts, parser, notify_state, notify_sample, conn, rd, disc, hist>>

(***************************************************************************)
(* process_line (lib.rs 444-450): takes the parser mutex and parses; the   *)
(* mutex stays held through accept_sample.                                 *)
(***************************************************************************)
ProcessLine(t) ==
  /\ At(t, "hc_process") /\ ParserFree(t)
  /\ \E now \in Times :
       LET r == parse_line(parser, task[t].line, now) IN
       /\ parser' = r.parser
       /\ task' = [task EXCEPT
                     ![t].pc = IF r.res.err # "" THEN "hc_parse_err"
                               ELSE IF r.res.sample = None THEN "hc_top"
                               ELSE "as_latest",
                     ![t].msg = r.res.err,
                     ![t].sample = r.res.sample,
                     ![t].line = BlankLine]
       /\ hist' = IF task[t].line.kind = "blank" THEN hist
                  ELSE [hist EXCEPT
                          !.nonblank = Min2(@ + 1, 2),
                          !.header = IF hist.nonblank = 0 /\ cfg.format = "csv"
                                     THEN Some([i \in 1..Len(task[t].line.parts) |->
                                                  task[t].line.parts[i].s])
                                     ELSE @]
  /\ UNCHANGED <<lk, cfg, env, state, stop_flag, handle, backoff, metrics, latest_sample,
                 start_ts, notify_state, notify_sample, conn, rd, disc>>

(***************************************************************************)
(* accept_sample (lib.rs 452-478)                                          *)
(***************************************************************************)
\* 454-459: the dedup test against the latest accepted sample
DiscardsInclusive(latest, sample) ==
  /\ IsSome(latest)
  /\ cfg.dedupe_within_ms > 0
  /\ sample.ts - Unwrap(latest).ts <= cfg.dedupe_within_ms

Discards(latest, sample) ==
  /\ IsSome(latest)
  /\ cfg.dedupe_within_ms > 0
  /\ sample.ts - Unwrap(latest).ts < cfg.dedupe_within_ms

\* 453-462
AsLatest(t) ==
  /\ At(t, "as_latest")
  /\ IF Discards(latest_sample, Unwrap(task[t].sample))
     THEN /\ task' = [task EXCEPT ![t].pc = "hc_top", ![t].sample = None]
          /\ UNCHANGED <<latest_sample, hist>>
     ELSE /\ latest_sample' = task[t].sample
          /\ Goto(t, "as_start")
          /\ hist' = [hist EXCEPT
                        !.accepted = Min2(@ + 1, 2),
                        !.first = IF hist.accepted = 0
                                  THEN Some(Unwrap(task[t].sample).ts) ELSE @,
                        !.last = Some(Unwrap(task[t].sample).ts)]
  /\ UNCHANGED <<lk, cfg, env, state, stop_flag, handle, backoff, metrics,
                 start_ts, parser, notify_state, notify_sample, conn, rd, disc>>

\* 464-469
AsStart(t) ==
  /\ At(t, "as_start")
  /\ start_ts' = IF start_ts = None THEN Some(Unwrap(task[t].sample).ts) ELSE start_ts
  /\ Goto(t, "as_metrics")
  /\ UNCHANGED <<lk, cfg, env, state, stop_flag, handle, backoff, metrics, latest_sample,
                 parser, notify_state, notify_sample, conn, rd, disc, hist>>

\* 471-475
AsMetrics(t) ==
  /\ At(t, "as_metrics")
  /\ metrics' = [metrics EXCEPT
                   !.linesParsed = @ + 1,
                   !.lastLineAt = Some(to_rfc3339_millis(Unwrap(task[t].sample).ts))]
  /\ Goto(t, "as_notify")
  /\ UNCHANGED <<lk, cfg, env, state, stop_flag, handle, backoff, latest_sample,
                 start_ts, parser, notify_state, notify_sample, conn, rd, disc, hist>>

\* 477; returning releases the parser mutex
AsNotify(t) ==
  /\ At(t, "as_notify")
  /\ NotifySample
  /\ task' = [task EXCEPT ![t].pc = "hc_top", ![t].sample = None]
  /\ UNCHANGED <<lk, cfg, env, state, stop_flag, handle, backoff, metrics, latest_sample,
                 start_ts, parser, notify_state, conn, rd, disc, hist>>

(***************************************************************************)
(* handle_failure (lib.rs 480-494); every caller continues at line 375     *)
(***************************************************************************)
\* handle_failure clearing the counters together with the error message
HfErrResetMetrics(t) ==
  /\ At(t, "hf_err")
  /\ metrics' = [metrics EXCEPT !.lastError = Some(task[t].msg),
                                !.linesReceived = 0, !.linesParsed = 0,
                                !.parseErrors = 0, !.telemetryEmitted = 0,
                                !.reconnects = 0]
  /\ task' = [task EXCEPT ![t].pc = "hf_parser", ![t].msg = ""]
  /\ UNCHANGED <<lk, cfg, env, state, stop_flag, handle, backoff, latest_sample,
                 start_ts, parser, notify_state, notify_sample, conn, rd, disc, hist>>

HfErr(t) ==
  /\ At(t, "hf_err")
  /\ metrics' = [metrics EXCEPT !.lastError = Some(task[t].msg)]
  /\ task' = [task EXCEPT ![t].pc = "hf_parser", ![t].msg = ""]
  /\ UNCHANGED <<lk, cfg, env, state, stop_flag, handle, backoff, latest_sample,
                 start_ts, parser, notify_state, notify_sample, conn, rd, disc, hist>>

HfParser(t) ==
  /\ At(t, "hf_parser") /\ ParserFree(t)
  /\ parser' = ParserReset(parser)
  /\ Goto(t, "hf_start")
  /\ UNCHANGED <<lk, cfg, env, state, stop_flag, handle, backoff, metrics, latest_sample,
                 start_ts, notify_state, notify_sample, conn, rd, disc, hist>>

HfStart(t) ==
  /\ At(t, "hf_start")
  /\ start_ts' = None
  /\ Goto(t, "hf_latest")
  /\ UNCHANGED <<lk, cfg, env, state, stop_flag, handle, backoff, metrics, latest_sample,
                 parser, notify_state, notify_sample, conn, rd, disc, hist>>

HfLatest(t) ==
  /\ At(t, "hf_latest")
  /\ latest_sample' = None
  /\ Goto(t, "hf_notify")
  /\ UNCHANGED <<lk, cfg, env, state, stop_flag, handle, backoff, metrics,
                 start_ts, parser, notify_state, notify_sample, conn, rd, disc, hist>>

HfNotify(t) ==
  /\ At(t, "hf_notify")
  /\ NotifySample
  /\ Goto(t, "hf_load")
  /\ UNCHANGED <<lk, cfg, env, state, stop_flag, handle, backoff, metrics, latest_sample,
                 start_ts, parser, notify_state, conn, rd, disc, hist>>

\* 489-493: the argument is evaluated (the flag loaded) before set_state locks
HfLoad(t) ==
  /\ At(t, "hf_load")
  /\ task' = [task EXCEPT ![t].pc = "hf_state", ![t].flag = stop_flag]
  /\ UNCHANGED <<lk, cfg, env, state, stop_flag, handle, backoff, metrics, latest_sample,
                 start_ts, parser, notify_state, notify_sample, conn, rd, disc, hist>>

HfState(t) ==
  /\ At(t, "hf_state")
  /\ set_state(IF task[t].flag THEN "STOPPED" ELSE "DISCONNECTED")
  /\ task' = [task EXCEPT ![t].pc = "rl_after", ![t].flag = FALSE]
  /\ UNCHANGED <<lk, cfg, env, stop_flag, handle, backoff, metrics, latest_sample,
                 start_ts, parser, notify_sample, conn, rd, disc, hist>>

TaskNext(t) ==
  \/ TaskStart(t)
  \/ RlTop(t) \/ RlSetConnecting(t)
  \/ RlResetParser(t) \/ RlResetLatest(t) \/ RlResetStart(t)
  \/ RlConnectOk(t) \/ RlConnectErr(t)
  \/ HcBackoff(t) \/ HcClearErr(t) \/ HcSetConnected(t) \/ HcTop(t)
  \/ HcReadLine(t) \/ HcReadEof(t) \/ HcReadErr(t)
  \/ ProcessLine(t) \/ HcParseErr(t)
  \/ AsLatest(t) \/ AsStart(t) \/ AsMetrics(t) \/ AsNotify(t)
  \/ HfErr(t) \/ HfParser(t) \/ HfStart(t) \/ HfLatest(t) \/ HfNotify(t)
  \/ HfLoad(t) \/ HfState(t)
  \/ RlAfter(t) \/ RlReconnects(t) \/ RlBackoffNext(t) \/ RlSleep(t)
  \/ RlFinalLoad(t) \/ RlFinalSet(t)

(***************************************************************************)
(* connect() (lib.rs 607-611) = ensure_loop (340-355), then                *)
(* wait_for_connected (502-516)                                            *)
(***************************************************************************)
ConnCall(c) ==
  /\ conn[c].pc \in {"idle", "done"}
  /\ conn[c].calls < env.maxConnects
  /\ conn' = [conn EXCEPT ![c] = [pc |-> "el_check", res |-> "", calls |-> conn[c].calls + 1,
                                   late |-> hist.disc_returned]]
  /\ UNCHANGED <<lk, cfg, env, state, stop_flag, handle, backoff, metrics, latest_sample,
                 start_ts, parser, notify_state, notify_sample, task, rd, disc, hist>>

\* 342-346: the idempotent-start test, under the handle mutex
MustSpawnAlways(h) == TRUE

MustSpawnUnlessStopped(h) == ~stop_flag /\ (h = None \/ is_finished(Unwrap(h)))

MustSpawn(h) == h = None \/ is_finished(Unwrap(h))

\* 341-347: lock the handle; return early, or clear the stop flag
ElCheck(c) ==
  /\ conn[c].pc = "el_check" /\ HandleFree
  /\ IF MustSpawn(handle)
     THEN /\ hist.spawned < MaxTasks
          /\ stop_flag' = FALSE
          /\ conn' = [conn EXCEPT ![c].pc = "el_backoff"]
          /\ hist' = [hist EXCEPT !.stopped = FALSE]
     ELSE /\ conn' = [conn EXCEPT ![c].pc = "wc_check"]
          /\ UNCHANGED <<stop_flag, hist>>
  /\ UNCHANGED <<lk, cfg, env, state, handle, backoff, metrics, latest_sample,
                 start_ts, parser, notify_state, notify_sample, task, rd, disc>>

\* 348-352
ElBackoff(c) ==
  /\ conn[c].pc = "el_backoff"
  /\ backoff' = BackoffReset([backoff EXCEPT !.min = cfg.reconnect.min_backoff_ms,
                                             !.max = cfg.reconnect.max_backoff_ms])
  /\ conn' = [conn EXCEPT ![c].pc = "el_spawn"]
  /\ UNCHANGED <<lk, cfg, env, state, stop_flag, handle, metrics, latest_sample,
                 start_ts, parser, notify_state, notify_sample, task, rd, disc, hist>>

\* 353-355: spawn run_loop, store its handle, release the handle mutex
ElSpawn(c) ==
  /\ conn[c].pc = "el_spawn"
  /\ LET t == hist.spawned + 1 IN
       /\ task' = [task EXCEPT ![t] = NewTask]
       /\ handle' = Some(t)
  /\ hist' = [hist EXCEPT !.spawned = @ + 1, !.k = 0]
  /\ conn' = [conn EXCEPT ![c].pc = "wc_check"]
  /\ UNCHANGED <<lk, cfg, env, state, stop_flag, backoff, metrics, latest_sample,
                 start_ts, parser, notify_state, notify_sample, rd, disc>>

\* 504-513: read the state and decide
WcCheck(c) ==
  /\ conn[c].pc = "wc_check"
  /\ conn' = [conn EXCEPT
       ![c].pc  = IF state \in {"CONNECTED", "STOPPED"} THEN "done"
                  ELSE IF state = "DISCONNECTED" /\ ~cfg.reconnect.enabled THEN "wc_msg"
                  ELSE "wc_notified",
       ![c].res = IF state = "CONNECTED" THEN "ok"
                  ELSE IF state = "STOPPED" THEN "driver stopped"
                  ELSE ""]
  /\ UNCHANGED <<lk, cfg, env, state, stop_flag, handle, backoff, metrics, latest_sample,
                 start_ts, parser, notify_state, notify_sample, task, rd, disc, hist>>

\* 509-510: the last error, or "disconnected"
WcMsg(c) ==
  /\ conn[c].pc = "wc_msg"
  /\ conn' = [conn EXCEPT
       ![c].pc  = "done",
       ![c].res = IF IsSome(metrics.lastError) THEN Unwrap(metrics.lastError)
                  ELSE "disconnected"]
  /\ UNCHANGED <<lk, cfg, env, state, stop_flag, handle, backoff, metrics, latest_sample,
                 start_ts, parser, notify_state, notify_sample, task, rd, disc, hist>>

\* 514: notify_state.notified() creates the future
WcNotified(c) ==
  /\ conn[c].pc = "wc_notified"
  /\ notify_state' = notify_state \cup {c}
  /\ conn' = [conn EXCEPT ![c].pc = "wc_wait"]
  /\ UNCHANGED <<lk, cfg, env, state, stop_flag, handle, backoff, metrics, latest_sample,
                 start_ts, parser, notify_sample, task, rd, disc, hist>>

\* 514: .await completes once a notify_waiters() has covered the future
WcWake(c) ==
  /\ conn[c].pc = "wc_wait" /\ c \notin notify_state
  /\ conn' = [conn EXCEPT ![c].pc = "wc_check"]
  /\ UNCHANGED <<lk, cfg, env, state, stop_flag, handle, backoff, metrics, latest_sample,
                 start_ts, parser, notify_state, notify_sample, task, rd, disc, hist>>

ConnNext(c) ==
  \/ ConnCall(c) \/ ElCheck(c) \/ ElBackoff(c) \/ ElSpawn(c)
  \/ WcCheck(c) \/ WcMsg(c) \/ WcNotified(c) \/ WcWake(c)

(***************************************************************************)
(* read_telemetry() (lib.rs 541-577) with wait_for_sample (524-539)        *)
(***************************************************************************)
NewRead == [pc |-> "idle", res |-> "", sample |-> None, elapsed_ms |-> 0,
            first |-> None, calls |-> 0, flagged |-> FALSE, emitted0 |-> 0]

RdCall(r) ==
  /\ rd[r].pc \in {"idle", "done"}
  /\ rd[r].calls < env.maxReads
  /\ rd' = [rd EXCEPT ![r] = [NewRead EXCEPT !.pc = "ws_stop", !.calls = rd[r].calls + 1,
                                              !.flagged = stop_flag /\ hist.stopped,
                                              !.emitted0 = metrics.telemetryEmitted]]
  /\ UNCHANGED <<lk, cfg, env, state, stop_flag, handle, backoff, metrics, latest_sample,
                 start_ts, parser, notify_state, notify_sample, task, conn, disc, hist>>

\* 527-529
WsStopIgnoreFlag(r) ==
  /\ rd[r].pc = "ws_stop"
  /\ rd' = [rd EXCEPT ![r].pc = "ws_latest"]
  /\ UNCHANGED <<lk, cfg, env, state, stop_flag, handle, backoff, metrics, latest_sample,
                 start_ts, parser, notify_state, notify_sample, task, conn, disc, hist>>

WsStop(r) ==
  /\ rd[r].pc = "ws_stop"
  /\ rd' = [rd EXCEPT ![r].pc = IF stop_flag THEN "done" ELSE "ws_latest",
                      ![r].res = IF stop_flag THEN "driver stopped" ELSE ""]
  /\ UNCHANGED <<lk, cfg, env, state, stop_flag, handle, backoff, metrics, latest_sample,
                 start_ts, parser, notify_state, notify_sample, task, conn, disc, hist>>

\* 530-532
WsLatest(r) ==
  /\ rd[r].pc = "ws_latest"
  /\ rd' = [rd EXCEPT ![r].pc = IF IsSome(latest_sample) THEN "rt_clone" ELSE "ws_notified"]
  /\ UNCHANGED <<lk, cfg, env, state, stop_flag, handle, backoff, metrics, latest_sample,
                 start_ts, parser, notify_state, notify_sample, task, conn, disc, hist>>

\* 533: notify_sample.notified() creates the future
WsNotified(r) ==
  /\ rd[r].pc = "ws_notified"
  /\ notify_sample' = notify_sample \cup {r}
  /\ rd' = [rd EXCEPT ![r].pc = "ws_wait"]
  /\ UNCHANGED <<lk, cfg, env, state, stop_flag, handle, backoff, metrics, latest_sample,
                 start_ts, parser, notify_state, task, conn, disc, hist>>

\* 534-535: notified within the timeout
WsWake(r) ==
  /\ rd[r].pc = "ws_wait" /\ r \notin notify_sample
  /\ rd' = [rd EXCEPT ![r].pc = "ws_stop"]
  /\ UNCHANGED <<lk, cfg, env, state, stop_flag, handle, backoff, metrics, latest_sample,
                 start_ts, parser, notify_state, notify_sample, task, conn, disc, hist>>

\* 534, 536: the timeout elapses first; the future is dropped
WsTimeout(r) ==
  /\ rd[r].pc = "ws_wait" /\ r \in notify_sample
  /\ notify_sample' = notify_sample \ {r}
  /\ rd' = [rd EXCEPT ![r].pc = "done", ![r].res = "no telemetry yet"]
  /\ UNCHANGED <<lk, cfg, env, state, stop_flag, handle, backoff, metrics, latest_sample,
                 start_ts, parser, notify_state, task, conn, disc, hist>>

\* 543-548
RtClone(r) ==
  /\ rd[r].pc = "rt_clone"
  /\ rd' = [rd EXCEPT ![r].pc = IF IsSome(latest_sample) THEN "rt_elapsed" ELSE "done",
                      ![r].res = IF IsSome(latest_sample) THEN "" ELSE "no telemetry yet",
                      ![r].sample = latest_sample,
                      ![r].first = IF IsSome(latest_sample) THEN hist.first ELSE None]
  /\ UNCHANGED <<lk, cfg, env, state, stop_flag, handle, backoff, metrics, latest_sample,
                 start_ts, parser, notify_state, notify_sample, task, conn, disc, hist>>

\* 550-559: base = start_ts.get_or_insert(sample.ts); elapsed = max(ts - base, 0)
RtElapsed(r) ==
  /\ rd[r].pc = "rt_elapsed"
  /\ LET ts   == Unwrap(rd[r].sample).ts
         base == IF start_ts = None THEN ts ELSE Unwrap(start_ts)
     IN /\ start_ts' = Some(base)
        /\ rd' = [rd EXCEPT ![r].pc = "rt_metrics",
                            ![r].elapsed_ms = Max2(ts - base, 0)]
  /\ UNCHANGED <<lk, cfg, env, state, stop_flag, handle, backoff, metrics, latest_sample,
                 parser, notify_state, notify_sample, task, conn, disc, hist>>

\* 561-564, 566-576
RtMetrics(r) ==
  /\ rd[r].pc = "rt_metrics"
  /\ metrics' = [metrics EXCEPT !.telemetryEmitted = @ + 1]
  /\ rd' = [rd EXCEPT ![r].pc = "done", ![r].res = "ok"]
  /\ UNCHANGED <<lk, cfg, env, state, stop_flag, handle, backoff, latest_sample,
                 start_ts, parser, notify_state, notify_sample, task, conn, disc, hist>>

ReadNext(r) ==
  \/ RdCall(r) \/ WsStop(r) \/ WsLatest(r) \/ WsNotified(r) \/ WsWake(r)
  \/ WsTimeout(r) \/ RtClone(r) \/ RtElapsed(r) \/ RtMetrics(r)

(***************************************************************************)
(* disconnect() (lib.rs 583-590)                                           *)
(***************************************************************************)
DiscCall(d) ==
  /\ disc[d].pc = "idle"
  /\ disc' = [disc EXCEPT ![d].pc = "d_store"]
  /\ UNCHANGED <<lk, cfg, env, state, stop_flag, handle, backoff, metrics, latest_sample,
                 start_ts, parser, notify_state, notify_sample, task, conn, rd, hist>>

\* 584
DStore(d) ==
  /\ disc[d].pc = "d_store"
  /\ stop_flag' = TRUE
  /\ disc' = [disc EXCEPT ![d].pc = "d_set_state"]
  /\ UNCHANGED <<lk, cfg, env, state, handle, backoff, metrics, latest_sample,
                 start_ts, parser, notify_state, notify_sample, task, conn, rd, hist>>

\* 585
DSetState(d) ==
  /\ disc[d].pc = "d_set_state"
  /\ set_state("STOPPED")
  /\ disc' = [disc EXCEPT ![d].pc = "d_notify"]
  /\ UNCHANGED <<lk, cfg, env, stop_flag, handle, backoff, metrics, latest_sample,
                 start_ts, parser, notify_sample, task, conn, rd, hist>>

\* 586
DNotify(d) ==
  /\ disc[d].pc = "d_notify"
  /\ NotifySample
  /\ disc' = [disc EXCEPT ![d].pc = "d_abort"]
  /\ UNCHANGED <<lk, cfg, env, state, stop_flag, handle, backoff, metrics, latest_sample,
                 start_ts, parser, notify_state, task, conn, rd, hist>>

\* 587-589: take the handle and abort its task; disconnect() returns
DAbort(d) ==
  /\ disc[d].pc = "d_abort" /\ HandleFree
  /\ task' = IF IsSome(handle) /\ ~is_finished(Unwrap(handle))
             THEN [task EXCEPT ![Unwrap(handle)].aborted = TRUE]
             ELSE task
  /\ handle' = None
  /\ disc' = [disc EXCEPT ![d].pc = "done"]
  /\ hist' = [hist EXCEPT !.disc_returned = TRUE, !.stopped = TRUE]
  /\ UNCHANGED <<lk, cfg, env, state, stop_flag, backoff, metrics, latest_sample,
                 start_ts, parser, notify_state, notify_sample, conn, rd>>

DiscNext(d) ==
  \/ DiscCall(d) \/ DStore(d) \/ DSetState(d) \/ DNotify(d) \/ DAbort(d)

(***************************************************************************)
(* The mutexes of DriverInner (lib.rs 306-319) at the level of single lock *)
(* and unlock operations.  Every function is the sequence of lock, unlock, *)
(* await and branch operations of its source; a position <<l, k>> is      *)
(* source line l, with k > 0 inside the critical sections begun there.     *)
(***************************************************************************)
Mutexes == {"parser", "state", "metrics", "latest_sample", "start_ts", "backoff", "handle"}

Procs == {"task", "connect", "read", "status", "disconnect"}

E(from, op, m, to) == [from |-> from, op |-> op, m |-> m, to |-> to]

Go(a, b) == {E(<<a, 0>>, "go", "", <<b, 0>>)}

Await(a, b) == {E(<<a, 0>>, "await", "", <<b, 0>>)}

\* a guard taken at line a and dropped before line b is reached
Sect(a, m, b) == {E(<<a, 0>>, "lock", m, <<a, 1>>), E(<<a, 1>>, "unlock", m, <<b, 0>>)}

\* handle_failure (480-494); all three call sites return to line 375
HandleFailureProgram ==
  Sect(482, "metrics", 485) \cup Sect(485, "parser", 486) \cup Sect(486, "start_ts", 487)
  \cup Sect(487, "latest_sample", 489) \cup Sect(489, "state", 375)

\* process_line and accept_sample (444-478): the parser guard is held from
\* 445 to 450, the latest_sample guard from 453 to 457 or 462
ProcessLineProgram ==
  {E(<<445, 0>>, "lock", "parser", <<446, 0>>)}
  \cup Go(446, 453) \cup Go(446, 450)
  \cup {E(<<453, 0>>, "lock", "latest_sample", <<454, 0>>),
        E(<<454, 0>>, "unlock", "latest_sample", <<450, 0>>),
        E(<<454, 0>>, "unlock", "latest_sample", <<465, 0>>)}
  \cup Sect(465, "start_ts", 472) \cup Sect(472, "metrics", 450)
  \cup {E(<<450, 0>>, "unlock", "parser", <<431, 0>>),
        E(<<450, 0>>, "unlock", "parser", <<414, 0>>)}

\* handle_connected (400-442)
HandleConnectedProgram ==
  Sect(402, "backoff", 406) \cup Sect(406, "metrics", 409) \cup Sect(409, "state", 414)
  \cup Go(414, 419) \cup Go(414, 375)
  \cup Await(419, 427) \cup Await(419, 482)
  \cup Sect(427, "metrics", 445)
  \cup ProcessLineProgram
  \cup Sect(431, "metrics", 414)

\* run_loop (357-398); from 398 the next task, spawned by a later connect()
RunLoopProgram ==
  Go(359, 363) \cup Go(359, 392)
  \cup Sect(363, "state", 497)
  \cup Sect(497, "parser", 498) \cup Sect(498, "latest_sample", 499)
  \cup Sect(499, "start_ts", 366)
  \cup Await(366, 402) \cup Await(366, 482)
  \cup HandleConnectedProgram \cup HandleFailureProgram
  \cup Go(375, 392) \cup Go(375, 384)
  \cup Sect(384, "metrics", 388) \cup Sect(388, "backoff", 389)
  \cup Await(389, 359)
  \cup Go(392, 397) \cup Sect(397, "state", 398)
  \cup Go(398, 359)

\* wait_for_connected (502-516) with the state guard kept across the wait
WaitForConnectedGuardKept ==
  {E(<<504, 0>>, "lock", "state", <<506, 0>>)}
  \cup Go(506, 341) \cup Go(506, 509) \cup Go(506, 514)
  \cup Sect(509, "metrics", 341)
  \cup {E(<<514, 0>>, "await", "", <<515, 0>>), E(<<515, 0>>, "unlock", "state", <<504, 0>>)}

\* wait_for_connected (502-516)
WaitForConnectedProgram ==
  Sect(504, "state", 506)
  \cup Go(506, 341) \cup Go(506, 509) \cup Go(506, 514)
  \cup Sect(509, "metrics", 341)
  \cup Await(514, 504)

\* connect (607-611): ensure_loop (340-355) holds the handle guard from 341
\* to 344 or 355, then wait_for_connected
ConnectProgram ==
  {E(<<341, 0>>, "lock", "handle", <<342, 0>>),
   E(<<342, 0>>, "unlock", "handle", <<504, 0>>)}
  \cup Go(342, 348)
  \cup Sect(348, "backoff", 354)
  \cup {E(<<354, 0>>, "unlock", "handle", <<504, 0>>)}
  \cup WaitForConnectedProgram

\* read_telemetry (541-577) with wait_for_sample (524-539)
ReadProgram ==
  Go(527, 530)
  \cup Sect(530, "latest_sample", 531)
  \cup Go(531, 544) \cup Go(531, 534)
  \cup Await(534, 527)
  \cup Sect(544, "latest_sample", 547)
  \cup Go(547, 527) \cup Go(547, 551)
  \cup Sect(551, "start_ts", 562) \cup Sect(562, "metrics", 527)

\* get_status (579-581): both guards are temporaries of one expression, the
\* state guard is alive while the metrics guard is taken
StatusProgram ==
  {E(<<580, 0>>, "lock", "state", <<580, 1>>),
   E(<<580, 1>>, "lock", "metrics", <<580, 2>>),
   E(<<580, 2>>, "unlock", "metrics", <<580, 3>>),
   E(<<580, 3>>, "unlock", "state", <<580, 0>>)}

\* disconnect (583-590): set_state, then the handle guard for take and abort
DisconnectProgram ==
  Go(584, 585) \cup Sect(585, "state", 587) \cup Sect(587, "handle", 584)

Program(p) ==
  CASE p = "task"       -> RunLoopProgram
    [] p = "connect"    -> ConnectProgram
    [] p = "read"       -> ReadProgram
    [] p = "status"     -> StatusProgram
    [] p = "disconnect" -> DisconnectProgram

Entry0(p) ==
  CASE p = "task"       -> <<359, 0>>
    [] p = "connect"    -> <<341, 0>>
    [] p = "read"       -> <<527, 0>>
    [] p = "status"     -> <<580, 0>>
    [] p = "disconnect" -> <<584, 0>>

LkInit == [owner |-> [m \in Mutexes |-> "free"], at |-> [p \in Procs |-> Entry0(p)]]

\* the operations thread p is about to execute
Ops(p) == {e \in Program(p) : e.from = lk.at[p]}

Held(p) == {m \in Mutexes : lk.owner[m] = p}

LkRest ==
  UNCHANGED <<cfg, env, state, stop_flag, handle, backoff, metrics, latest_sample,
              start_ts, parser, notify_state, notify_sample, task, conn, rd, disc, hist>>

\* Mutex::lock: granted when the mutex is free
LkLock(p) ==
  /\ \E e \in Ops(p) :
       /\ e.op = "lock" /\ lk.owner[e.m] = "free"
       /\ lk' = [owner |-> [lk.owner EXCEPT ![e.m] = p], at |-> [lk.at EXCEPT ![p] = e.to]]
  /\ LkRest

\* the guard is dropped
LkUnlock(p) ==
  /\ \E e \in Ops(p) :
       /\ e.op = "unlock" /\ lk.owner[e.m] = p
       /\ lk' = [owner |-> [lk.owner EXCEPT ![e.m] = "free"], at |-> [lk.at EXCEPT ![p] = e.to]]
  /\ LkRest

\* an .await resolves
LkAwait(p) ==
  /\ \E e \in Ops(p) : e.op = "await" /\ lk' = [lk EXCEPT !.at[p] = e.to]
  /\ LkRest

\* a branch, call or return that touches no mutex
LkGo(p) ==
  /\ \E e \in Ops(p) : e.op = "go" /\ lk' = [lk EXCEPT !.at[p] = e.to]
  /\ LkRest

LkNext(p) == LkLock(p) \/ LkUnlock(p) \/ LkAwait(p) \/ LkGo(p)

(***************************************************************************)
(* Configurations, remote endpoints and callers explored.                  *)
(***************************************************************************)
Config(format, hasHeader, columns, dedupe, enabled, mn, mx) ==
  [format           |-> format,
   csv              |-> [has_header |-> hasHeader, columns |-> columns],
   dedupe_within_ms |-> dedupe,
   offsets          |-> [bt_c |-> 2, et_c |-> 0],
   reconnect        |-> [enabled |-> enabled, min_backoff_ms |-> mn, max_backoff_ms |-> mx]]

\* The remote endpoint (the lines it may send, how many lines and connection
\* attempts are explored) and how many calls each caller makes.
Endpoint(wire, maxLines, maxAttempts, maxConnects, maxReads) ==
  [wire |-> wire, maxLines |-> maxLines, maxAttempts |-> maxAttempts,
   maxConnects |-> maxConnects, maxReads |-> maxReads]

\* {"ts": <t>, "btC": "7"}
SampleLine(t) == ObjectLine(<<Entry("ts", TsText(t)), Entry("btC", NumText(7))>>)
\* {"ts": "yesterday", "btC": "7"}
BadTsLine == ObjectLine(<<Entry("ts", Word("yesterday")), Entry("btC", NumText(7))>>)
\* {"btC": 7}: no ts, stamped on arrival
NoTsLine == ObjectLine(<<Entry("btC", JsonNum(7))>>)
\* {"ts": <t>}: neither channel nor extra
NoDataLine(t) == ObjectLine(<<Entry("ts", TsText(t))>>)
\* not JSON
GarbageLine == TextLine(<<Word("garbage")>>)

Col(name) == [jt |-> "str", c |-> "word", n |-> 0, s |-> name]
\* ts,btC   and   btC,ts   (header rows)
HeaderTsBt == TextLine(<<Col("ts"), Col("btC")>>)
HeaderBtTs == TextLine(<<Col("btC"), Col("ts")>>)
\* <t>,7   and   7,<t>   (data rows)
RowTsBt(t) == TextLine(<<TsText(t), NumText(7)>>)
RowBtTs(t) == TextLine(<<NumText(7), TsText(t)>>)

InitDriver ==
  /\ lk = LkInit
  /\ state = "DISCONNECTED"
  /\ stop_flag = FALSE
  /\ handle = None
  /\ backoff = BackoffNew(0, 0)
  /\ metrics = [linesReceived |-> 0, linesParsed |-> 0, parseErrors |-> 0,
                telemetryEmitted |-> 0, reconnects |-> 0,
                lastError |-> None, lastLineAt |-> None]
  /\ latest_sample = None
  /\ start_ts = None
  /\ parser = ParserNew
  /\ notify_state = {}
  /\ notify_sample = {}
  /\ task = [t \in Tasks |-> NoTask]
  /\ hist = [spawned |-> 0, disc_returned |-> FALSE, stopped |-> FALSE, attempts |-> 0, k |-> 0,
             nonblank |-> 0, accepted |-> 0, header |-> None, first |-> None,
             last |-> None]

\* The callers that take part start "idle"; the others never call.
Callers(conns, readers, discs) ==
  /\ conn = [c \in ConnIds |->
              [pc |-> IF c \in conns THEN "idle" ELSE "absent", res |-> "", calls |-> 0,
               late |-> FALSE]]
  /\ rd = [r \in ReadIds |-> [NewRead EXCEPT !.pc = IF r \in readers THEN "idle" ELSE "absent"]]
  /\ disc = [d \in DiscIds |-> [pc |-> IF d \in discs THEN "idle" ELSE "absent"]]

TasksNext == \E t \in Tasks : TaskNext(t)
ConnsNext == \E c \in ConnIds : ConnNext(c)
ReadsNext == \E r \in ReadIds : ReadNext(r)
DiscsNext == \E d \in DiscIds : DiscNext(d)
CancelNext == \E t \in Tasks : TaskCancel(t)

(***************************************************************************)
(* Spec: stop and restart.  One caller calls connect() up to StopCalls     *)
(* times, another calls disconnect(); both race with the background tasks. *)
(***************************************************************************)
Init ==
  /\ cfg \in {Config("jsonl", FALSE, <<>>, 0, en, 1, 1) : en \in BOOLEAN}
  /\ env = Endpoint({SampleLine(1), GarbageLine}, StopLines, StopAttempts, StopCalls, 0)
  /\ InitDriver
  /\ Callers({1}, {}, {1})

Next == TasksNext \/ CancelNext \/ ConnsNext \/ DiscsNext

Spec == Init /\ [][Next]_vars

(***************************************************************************)
(* SpecConnect: two callers call connect() concurrently, once each.        *)
(***************************************************************************)
InitConnect ==
  /\ cfg \in {Config("jsonl", FALSE, <<>>, 0, en, 1, 1) : en \in BOOLEAN}
  /\ env = Endpoint({SampleLine(1), GarbageLine}, ConnLines, ConnAttempts, 1, 0)
  /\ InitDriver
  /\ Callers({1, 2}, {}, {})

NextConnect == TasksNext \/ ConnsNext

SpecConnect == InitConnect /\ [][NextConnect]_vars

(***************************************************************************)
(* SpecRead: connect(), read_telemetry() and disconnect(), one caller      *)
(* each, race with the background task.                                    *)
(***************************************************************************)
InitRead ==
  /\ cfg \in {Config("jsonl", FALSE, <<>>, 0, en, 1, 1) : en \in BOOLEAN}
  /\ env = Endpoint({SampleLine(1), GarbageLine}, ReadLines, ReadAttempts, 1, ReadCalls)
  /\ InitDriver
  /\ Callers({1}, {1}, {1})

NextRead == TasksNext \/ CancelNext \/ ConnsNext \/ ReadsNext \/ DiscsNext

SpecRead == InitRead /\ [][NextRead]_vars

(***************************************************************************)
(* SpecIngest: one background task through its connection cycles, JSON     *)
(* lines with timestamps 0..MaxTs, and a concurrent read_telemetry()       *)
(* caller.                                                                 *)
(***************************************************************************)
IngestWire ==
  {SampleLine(t) : t \in Times} \cup {BadTsLine, GarbageLine}

InitIngest ==
  /\ cfg \in {Config("jsonl", FALSE, <<>>, w, TRUE, 0, 1) : w \in {0, 2}}
            \cup {Config("jsonl", FALSE, <<>>, 2, FALSE, 0, 1)}
  /\ env = Endpoint(IngestWire, MaxLines, MaxCycles, 1, MaxReads)
  /\ InitDriver
  /\ Callers({1}, {1}, {})

NextIngest == TasksNext \/ ConnsNext \/ ReadsNext

SpecIngest == InitIngest /\ [][NextIngest]_vars

(***************************************************************************)
(* SpecMetrics: one background task through its connection cycles, a       *)
(* sample line and a line that does not parse, and a concurrent            *)
(* read_telemetry() caller.                                                *)
(***************************************************************************)
InitMetrics ==
  /\ cfg \in {Config("jsonl", FALSE, <<>>, w, TRUE, 0, 1) : w \in {0, 2}}
            \cup {Config("jsonl", FALSE, <<>>, 2, FALSE, 0, 1)}
  /\ env = Endpoint({SampleLine(1), GarbageLine}, MetricLines, MetricCycles, 1, MetricReads)
  /\ InitDriver
  /\ Callers({1}, {1}, {})

NextMetrics == TasksNext \/ ConnsNext \/ ReadsNext

SpecMetrics == InitMetrics /\ [][NextMetrics]_vars

(***************************************************************************)
(* SpecAccept: the background task alone through its connection cycles,    *)
(* the same lines and configurations as SpecIngest.                        *)
(***************************************************************************)
InitAccept ==
  /\ cfg \in {Config("jsonl", FALSE, <<>>, w, TRUE, 0, 1) : w \in {0, 2}}
            \cup {Config("jsonl", FALSE, <<>>, 2, FALSE, 0, 1)}
  /\ env = Endpoint(IngestWire, AcceptLines, AcceptCycles, 1, 0)
  /\ InitDriver
  /\ Callers({1}, {}, {})

NextAccept == TasksNext \/ ConnsNext

SpecAccept == InitAccept /\ [][NextAccept]_vars

(***************************************************************************)
(* SpecCsv: one background task through its connection cycles, CSV lines.  *)
(***************************************************************************)
CsvWire == {HeaderTsBt, HeaderBtTs, RowTsBt(1), RowBtTs(2), BlankLine}

InitCsv ==
  /\ cfg \in {Config("csv", hh, cols, 0, en, 0, 1) :
                hh \in BOOLEAN, cols \in {<<>>, <<"ts", "btC">>}, en \in BOOLEAN}
  /\ env = Endpoint(CsvWire, CsvLines, CsvCycles, 1, 0)
  /\ InitDriver
  /\ Callers({1}, {}, {})

NextCsv == TasksNext \/ ConnsNext

SpecCsv == InitCsv /\ [][NextCsv]_vars

(***************************************************************************)
(* SpecBackoff: one background task, reconnection enabled, through up to   *)
(* MaxDelays connection attempts.                                          *)
(***************************************************************************)
BackoffBounds == {<<100, 1000>>, <<1, 3>>, <<2, 2>>, <<0, 0>>, <<0, 5>>, <<3, 7>>}

InitBackoff ==
  /\ cfg \in {Config("jsonl", FALSE, <<>>, 0, en, b[1], b[2]) :
                b \in BackoffBounds, en \in BOOLEAN}
  /\ env = Endpoint({NoTsLine, NoDataLine(1), BadTsLine}, 1, MaxDelays, 1, 0)
  /\ InitDriver
  /\ Callers({1}, {}, {})

NextBackoff == TasksNext \/ ConnsNext

SpecBackoff == InitBackoff /\ [][NextBackoff]_vars

(***************************************************************************)
(* SpecLocks: the background task and one caller each of connect(),        *)
(* read_telemetry(), get_status() and disconnect(), calling again and      *)
(* again, at the level of lock operations.                                 *)
(***************************************************************************)
InitLocks ==
  /\ cfg = Config("jsonl", FALSE, <<>>, 0, TRUE, 1, 1)
  /\ env = Endpoint({}, 0, 0, 0, 0)
  /\ InitDriver
  /\ Callers({}, {}, {})

NextLocks == \E p \in Procs : LkNext(p)

SpecLocks == InitLocks /\ [][NextLocks]_vars

(***************************************************************************)
(* Claims about stop and restart (Spec).                                   *)
(***************************************************************************)
\* What the background task ingests: counters, latest sample, origin
Ingested == <<metrics.linesReceived, metrics.linesParsed, metrics.parseErrors,
              metrics.lastLineAt, latest_sample, start_ts>>

\* C1: a stop always wins.  Once disconnect() has returned (and no later
\* connect() has restarted the driver) the state is STOPPED and stays
\* STOPPED, and the background task ingests nothing more.
C1_StopAlwaysWins ==
  /\ [](hist.stopped => state = "STOPPED")
  /\ [][hist.stopped => Ingested' = Ingested]_vars

\* A step of a connect() call that began after disconnect() had returned
LateConnectStep ==
  \E c \in ConnIds : conn[c].late /\ conn'[c].pc # conn[c].pc /\ conn[c].pc # "done"

ReturnCondition ==
  \/ state \in {"CONNECTED", "STOPPED"}
  \/ state = "DISCONNECTED" /\ ~cfg.reconnect.enabled

\* C5: no caller of connect() stays suspended on the state notification
\* while the state already lets it return.
C5_NoCallerSuspendedOnFinalState ==
  \A c \in ConnIds :
    (conn[c].pc = "wc_wait" /\ c \in notify_state) => ~ReturnCondition

(***************************************************************************)
(* Claims about concurrent connect() calls (SpecConnect).                  *)
(***************************************************************************)
\* C3: connect() is idempotent.  A call whose ensure_loop finds a task in
\* the handle that has not finished returns from ensure_loop at once: it
\* spawns nothing, leaves the stop flag, the backoff, the handle and every
\* task as they are (so no transport connection attempt is added); and a
\* call that finds the state CONNECTED returns success without waiting.
C3_ConnectIdempotent ==
  [][\A c \in ConnIds :
       /\ ( /\ conn[c].pc = "el_check" /\ conn'[c].pc # "el_check"
            /\ IsSome(handle) /\ ~is_finished(Unwrap(handle)) )
          => /\ conn'[c].pc = "wc_check"
             /\ UNCHANGED <<stop_flag, backoff, handle, task, state>>
             /\ hist'.spawned = hist.spawned /\ hist'.attempts = hist.attempts
       /\ (conn[c].pc = "wc_check" /\ conn'[c].pc # "wc_check" /\ state = "CONNECTED")
          => /\ conn'[c].pc = "done" /\ conn'[c].res = "ok"
             /\ UNCHANGED <<notify_state, task, hist>>]_vars

\* C3 witness: both callers returned success from one task that still runs
C3_BothConnectedOneTask ==
  /\ hist.spawned = 1 /\ ~is_finished(1) /\ hist.attempts = 1
  /\ \A c \in ConnIds : conn[c].pc = "done" /\ conn[c].res = "ok"

(***************************************************************************)
(* Claims about read_telemetry() against disconnect() (SpecRead).          *)
(***************************************************************************)
\* C4: a read_telemetry() call pending when disconnect() is called fails
\* with the stopped-driver error through the disconnect wake-up: once
\* disconnect() has returned (the stop flag still set) no reader is left
\* suspended on the sample notification with only its timeout to end it.
C4_PendingReadWokenByDisconnect ==
  \A r \in ReadIds :
    ~(rd[r].pc = "ws_wait" /\ r \in notify_sample /\ stop_flag /\ hist.stopped)

(***************************************************************************)
(* Claims about ingestion (SpecIngest).  hist.accepted, hist.first and     *)
(* hist.last are the number, the first and the latest timestamp of the     *)
(* samples accepted since the transport connection was established.        *)
(***************************************************************************)
\* C6: dedup against the single latest accepted sample.  With a window
\* W > 0 and a latest accepted sample of this connection at t0, a parsed
\* sample at t1 with t1 - t0 < W is discarded: slot, metrics and sample
\* waiters are untouched and the read loop goes on; otherwise (t1 - t0 >= W,
\* W = 0, or nothing accepted yet on this connection) the sample replaces the
\* slot and linesParsed grows by one with lastLineAt set to its timestamp.
C6_DedupAgainstLatest ==
  [][\A t \in Tasks :
       /\ (task[t].pc = "as_latest" /\ task'[t].pc # "as_latest") =>
            LET s == Unwrap(task[t].sample)
                W == cfg.dedupe_within_ms
            IN IF W > 0 /\ IsSome(hist.last) /\ s.ts - Unwrap(hist.last) < W
               THEN /\ task'[t].pc = "hc_top"
                    /\ UNCHANGED <<latest_sample, start_ts, metrics, notify_sample>>
               ELSE /\ task'[t].pc = "as_start"
                    /\ latest_sample' = Some(s)
       /\ (task[t].pc = "as_metrics" /\ task'[t].pc # "as_metrics") =>
            /\ metrics'.linesParsed = metrics.linesParsed + 1
            /\ metrics'.lastLineAt = Some(to_rfc3339_millis(Unwrap(latest_sample).ts))
            /\ task[t].sample = latest_sample]_vars

\* C6 witness: two sample lines on one connection, the second one discarded
C6_SecondSampleDiscarded ==
  /\ cfg.dedupe_within_ms > 0 /\ hist.attempts = 1
  /\ metrics.linesReceived = 2 /\ metrics.linesParsed = 1 /\ metrics.parseErrors = 0
  /\ \E t \in Tasks : task[t].pc = "hc_read"

\* C8: elapsed time is relative to the current connection.  A read reports
\* max(sample.ts - first accepted ts of the sample's connection, 0), which is
\* 0 for the first sample accepted after a (re)connection.
C8_ElapsedRelativeToConnection ==
  \A r \in ReadIds :
    (rd[r].pc = "rt_metrics" \/ (rd[r].pc = "done" /\ rd[r].res = "ok")) =>
      rd[r].elapsed_ms = Max2(Unwrap(rd[r].sample).ts - Unwrap(rd[r].first), 0)

\* The parse of a line fails
ParseFails(line) == parse_line(parser, line, 0).res.err # ""

\* C9: parse errors are absorbed without ending the connection.  A line
\* whose parse fails takes the Err arm: parseErrors grows by exactly one,
\* lastError becomes the parse error, linesParsed, the slot, the state and
\* the reconnect counter are unchanged, and the read loop goes on with the
\* state still CONNECTED.
C9_ParseErrorAbsorbed ==
  /\ [][\A t \in Tasks :
          /\ ( /\ task[t].pc = "hc_process" /\ task'[t].pc # "hc_process"
               /\ ParseFails(task[t].line) )
             => /\ task'[t].pc = "hc_parse_err"
                /\ task'[t].msg \in {"invalid json", "invalid timestamp"}
                /\ UNCHANGED <<metrics, latest_sample, start_ts, state, parser>>
          /\ (task[t].pc = "hc_parse_err" /\ task'[t].pc # "hc_parse_err")
             => /\ metrics' = [metrics EXCEPT !.parseErrors = @ + 1,
                                              !.lastError = Some(task[t].msg)]
                /\ UNCHANGED <<latest_sample, start_ts, state, backoff>>
                /\ task'[t].pc = "hc_top"
          /\ (task[t].pc = "hc_top" /\ task'[t].pc # "hc_top" /\ ~stop_flag)
             => task'[t].pc = "hc_read"]_vars
  /\ [](\A t \in Tasks :
          task[t].pc \in {"hc_process", "hc_parse_err", "hc_top"} => state = "CONNECTED")

\* C9 witness: two failing lines absorbed on one connection, a third awaited
C9_TwoErrorsStillConnected ==
  /\ metrics.parseErrors = 2 /\ hist.attempts = 1 /\ state = "CONNECTED"
  /\ metrics.reconnects = 0 /\ metrics.lastError = Some("invalid timestamp")
  /\ \E t \in Tasks : task[t].pc = "hc_read"

(***************************************************************************)
(* Claim about the reconnect delays (SpecBackoff).  hist.k is the number   *)
(* of delays taken since the task was spawned or since the last successful *)
(* transport connect.                                                      *)
(***************************************************************************)
RECURSIVE Pow2(_)
Pow2(n) == IF n = 0 THEN 1 ELSE 2 * Pow2(n - 1)

\* C7: the backoff sequence doubles, saturates and resets.  With
\* min <= max, the k-th delay slept since the last successful transport
\* connect (or since the spawn) is min(min * 2^(k-1), max), so the first
\* delay after a successful connect is min again.
C7_BackoffSequence ==
  \A t \in Tasks :
    task[t].pc = "rl_sleep" =>
      /\ hist.k >= 1
      /\ task[t].delay = Min2(cfg.reconnect.min_backoff_ms * Pow2(hist.k - 1),
                              cfg.reconnect.max_backoff_ms)

\* C7 witness: min 100, max 1000: the sixth consecutive delay is 1000
C7_SixthDelaySaturated ==
  /\ cfg.reconnect.min_backoff_ms = 100 /\ cfg.reconnect.max_backoff_ms = 1000
  /\ hist.k = 6
  /\ \E t \in Tasks : task[t].pc = "rl_sleep" /\ task[t].delay = 1000

(***************************************************************************)
(* Claim about the CSV header (SpecCsv).  hist.nonblank is the number of   *)
(* non-blank lines processed on the current connection, hist.header the    *)
(* tokens of the first of them when has_header is set.                     *)
(***************************************************************************)
\* Positions of run_loop between two connections: after the resets of the
\* connection start, and after handle_failure at the connection end
BetweenConnections ==
  {"rl_connect", "hc_backoff", "hc_clear_err", "hc_set_connected",
   "rl_after", "rl_reconnects", "rl_backoff_next", "rl_sleep"}

\* Positions of the read loop of handle_connected
InReadLoop ==
  {"hc_top", "hc_read", "hc_process", "hc_parse_err",
   "as_latest", "as_start", "as_metrics", "as_notify"}

NonBlank(line) == line.kind # "blank"

Started == hist.attempts + Cardinality({t \in Tasks : task[t].pc = "rl_connect"})

\* Positions of run_loop on the retry path (lines 383-389)
RetryPath == {"rl_reconnects", "rl_backoff_next", "rl_sleep"}

C12_ReadFailsFastWhenStopped ==
  \A r \in ReadIds :
    (rd[r].flagged /\ hist.stopped) =>
      /\ rd[r].pc \in {"ws_stop", "done"}
      /\ r \notin notify_sample
      /\ rd[r].pc = "done" => rd[r].res = "driver stopped"
      /\ metrics.telemetryEmitted = rd[r].emitted0

\* C12 witness: the call failed with the stopped-driver error while a sample
\* from before the disconnect is still in the slot
C12_StoppedWithSampleRetained ==
  \E r \in ReadIds :
    /\ rd[r].flagged /\ hist.stopped
    /\ rd[r].pc = "done" /\ rd[r].res = "driver stopped"
    /\ IsSome(latest_sample)

\* C13: per-connection state is cleared outside a connection.  Whenever the
\* driver state is DISCONNECTED or CONNECTING, the latest-sample slot and the
\* elapsed-time origin are both empty.
C13_ClearedOutsideConnection ==
  state \in {"DISCONNECTED", "CONNECTING"} =>
    (latest_sample = None /\ start_ts = None)

(***************************************************************************)
(* Claim about the mutexes (SpecLocks).                                    *)
(***************************************************************************)
\* thread p requests mutex m
Requests(p, m) == \E e \in Ops(p) : e.op = "lock" /\ e.m = m

\* thread p is at a suspension point
Suspended(p) == \E e \in Ops(p) : e.op = "await"

\* thread p can take no step: it requests a mutex another thread owns
Blocked(p) == Ops(p) # {} /\ \A e \in Ops(p) : e.op = "lock" /\ lk.owner[e.m] \notin {"free", p}

\* the pairs (held, requested) occurring in the current state
Nestings == {<<h, m>> \in Mutexes \X Mutexes : \E p \in Procs : h \in Held(p) /\ Requests(p, m)}

\* the nested acquisitions the claim lists
ListedNestings ==
  {<<"parser", "latest_sample">>, <<"parser", "start_ts">>, <<"parser", "metrics">>,
   <<"handle", "backoff">>, <<"state", "handle">>}

\* the nested acquisitions of the code
CodeNestings ==
  {<<"parser", "latest_sample">>, <<"parser", "start_ts">>, <<"parser", "metrics">>,
   <<"handle", "backoff">>, <<"state", "metrics">>}

\* no mutex is held at a suspension point
NoLockAcrossAwait == \A p \in Procs : Suspended(p) => Held(p) = {}

\* the thread a blocked thread waits for
WaitsFor(p) == IF Blocked(p) THEN lk.owner[CHOOSE m \in Mutexes : Requests(p, m)] ELSE "none"

\* following the waits from p reaches q within n steps
RECURSIVE Reaches(_, _, _)
Reaches(p, q, n) ==
  /\ n > 0
  /\ LET r == WaitsFor(p) IN r # "none" /\ (r = q \/ Reaches(r, q, n - 1))

\* no thread waits, directly or through other waiting threads, for itself
NoDeadlock == \A p \in Procs : ~Reaches(p, p, Cardinality(Procs))

BetweenAttempts ==
  {"rl_backoff_next", "rl_sleep", "rl_top", "rl_set_connecting",
   "rl_reset_parser", "rl_reset_latest", "rl_reset_start"}

\* C15 as claimed: the reconnect counter counts retries exactly.  Once the
\* first attempt of the task has started, reconnects equals the number of
\* transport connection attempts started minus one, and it stays 0 when
\* reconnection is disabled.
C15_ReconnectsIsAttemptsMinusOne ==
  /\ Started >= 1 => metrics.reconnects = Started - 1
  /\ ~cfg.reconnect.enabled => metrics.reconnects = 0

\* C15 as amended: the counter is incremented by one exactly when a
\* connection cycle ended with no stop requested and reconnection enabled,
\* immediately before the backoff delay is computed, and at no other time.
\* During one run of the task it equals the number of attempts started
\* minus one while an attempt or a connection is in progress, and the number
\* of attempts started from the increment until the next attempt starts; it
\* stays 0 when reconnection is disabled.
C15_ReconnectsCountRetries ==
  /\ [](/\ Started >= 1 =>
             metrics.reconnects =
               IF \E t \in Tasks : task[t].pc \in BetweenAttempts
               THEN Started ELSE Started - 1
        /\ ~cfg.reconnect.enabled => metrics.reconnects = 0)
  /\ [][/\ metrics'.reconnects # metrics.reconnects =>
             /\ metrics'.reconnects = metrics.reconnects + 1
             /\ cfg.reconnect.enabled
             /\ \E t \in Tasks : /\ task[t].pc = "rl_reconnects"
                                 /\ task'[t].pc = "rl_backoff_next"
        /\ \A t \in Tasks :
             /\ (task[t].pc = "rl_after" /\ task'[t].pc # "rl_after") =>
                  task'[t].pc = IF ~stop_flag /\ cfg.reconnect.enabled
                                THEN "rl_reconnects" ELSE "rl_final_load"
             /\ (task[t].pc = "rl_reconnects" /\ task'[t].pc # "rl_reconnects") =>
                  metrics'.reconnects = metrics.reconnects + 1]_vars

\* C15 witness: two connection cycles ended, the counter is 2 and the third
\* attempt has not started yet
C15_CountedBeforeNextAttempt ==
  /\ metrics.reconnects = 2 /\ Started = 2
  /\ \E t \in Tasks : task[t].pc = "rl_sleep"

\* C16: read_telemetry() is a non-consuming read.  No step of a call changes
\* the latest-sample slot, the elapsed-time origin, the driver state, the
\* parser, the stop flag, the backoff or the task handle; the step that
\* completes a successful call adds one to telemetryEmitted and no other
\* step of a call changes the metrics.
C16_ReadIsNonConsuming ==
  [][\A r \in ReadIds :
       rd'[r] # rd[r] =>
         /\ UNCHANGED <<latest_sample, start_ts, state, parser, stop_flag, backoff, handle>>
         /\ metrics' = IF rd'[r].res = "ok" /\ rd[r].res # "ok"
                       THEN [metrics EXCEPT !.telemetryEmitted = @ + 1]
                       ELSE metrics]_vars

\* C17: connect() on a fresh driver with reconnection disabled does not fail
\* with a disconnected error before the background task has started a
\* transport connection attempt: no caller takes the DISCONNECTED arm of
\* wait_for_connected while no attempt has been started.
C17_NoFailureBeforeFirstAttempt ==
  \A c \in ConnIds :
    (conn[c].pc = "wc_msg" \/ (conn[c].pc = "done" /\ conn[c].res = "disconnected"))
      => Started >= 1

(***************************************************************************)
(* Claims about the number of tasks and the metrics.                       *)
(***************************************************************************)
\* Positions at which a task is parked at an .await
Parked == {"start", "rl_connect", "hc_read", "rl_sleep"}

\* Task t can still execute steps of run_loop: it was spawned, has not
\* finished, and is not an aborted task parked at an .await
CanRun(t) == Live(t) /\ ~(task[t].aborted /\ task[t].pc \in Parked)

\* C18: at most one background ingestion task is live at any time: a new
\* task is never spawned while an earlier one can still execute steps.
C18_AtMostOneLiveTask == Cardinality({t \in Tasks : CanRun(t)}) <= 1

\* The five counters of DriverMetrics
Counters == {"linesReceived", "linesParsed", "parseErrors", "telemetryEmitted",
             "reconnects"}

\* C19: the metric counters are consistent and monotonic: in every state
\* linesParsed + parseErrors <= linesReceived, and no step (reconnection,
\* connection end, disconnect or any other) decreases linesReceived,
\* linesParsed, parseErrors, telemetryEmitted or reconnects.
C19_CountersConsistentMonotonic ==
  /\ [](metrics.linesParsed + metrics.parseErrors <= metrics.linesReceived)
  /\ [][\A k \in Counters : metrics'[k] >= metrics[k]]_vars

\* C19 witness: every counter has counted, and the connection has ended and
\* the driver has reconnected since
C19_AllCountedAcrossReconnect ==
  /\ \A k \in Counters : metrics[k] >= 1
  /\ hist.attempts >= 2
  /\ state = "CONNECTED"

\* C20: with a positive dedupe window W, the timestamps of the samples
\* accepted within one connection are strictly increasing and consecutive
\* accepted samples are at least W ms apart (so a sample earlier than the
\* latest accepted one is discarded), and the elapsed-time origin start_ts is
\* never later than the latest accepted sample of that connection.
C20_AcceptedIncreasingFromOrigin ==
  [][cfg.dedupe_within_ms > 0 =>
       /\ (IsSome(hist.last) /\ IsSome(hist'.last) /\ hist'.last # hist.last) =>
            /\ Unwrap(hist'.last) > Unwrap(hist.last)
            /\ Unwrap(hist'.last) - Unwrap(hist.last) >= cfg.dedupe_within_ms
       /\ (IsSome(start_ts') /\ IsSome(hist'.last)) =>
            Unwrap(start_ts') <= Unwrap(hist'.last)]_vars

====
